---- MODULE Spec2Model ----
(***************************************************************************)
(* The POSCAR reader (src/src/parse.rs) and writer (src/src/write.rs) of   *)
(* vasp-poscar as a state machine.                                         *)
(*                                                                         *)
(* A line is a TLA+ string, read one byte at a time with SubSeq; the byte  *)
(* "\f" (form feed) stands for the bytes that Rust's str::trim family      *)
(* removes but is_ascii_whitespace (parse.rs:171) does not.  A real number *)
(* is a decimal m * 10^e kept exactly; Option<T> is a sequence of length   *)
(* at most one.  The path of every span and error is None (from_reader,   *)
(* parse.rs:39) and is left out.                                           *)
(***************************************************************************)
EXTENDS Integers, Sequences, FiniteSets, TLC

VARIABLES
    src,        \* the items f.lines() yields, in order (terminators stripped)
    bad,        \* 1-based positions at which the source reports an I/O failure
    lines,      \* Lines { cur, lines: Fuse<I> }: [cur, pos, fused]
    pc,         \* the section _from_reader is about to run
    pass,       \* 1: parsing the input; 2: parsing the writer's output
    comment, scale, lattice_vectors,
    group_symbols, group_counts, n,
    has_selective_dynamics, has_direct,
    positions, dynamics,
    line,       \* the line held across the velocity look-ahead
    status,     \* PresenceIs: "Required" | "Possible"
    vel_direct, \* has_direct of the velocity block
    velocities,
    result,     \* what _from_reader returned: None, or Some of Ok/Err/Panic
    first,      \* the Document of pass 1, kept for the comparison
    out,        \* the bytes to_writer produced
    unit        \* a direct call of one of the helpers: [fn, arg, ret, ...]

vars == <<src, bad, lines, pc, pass, comment, scale, lattice_vectors,
          group_symbols, group_counts, n, has_selective_dynamics, has_direct,
          positions, dynamics, line, status, vel_direct, velocities,
          result, first, out, unit>>

----------------------------------------------------------------------------
(* Option<T> *)
None == <<>>
Some(x) == <<x>>
IsSome(o) == Len(o) = 1
Unwrap(o) == o[1]

(* Bytes of a string, 0-based as in the source. *)
At(s, i) == SubSeq(s, i + 1, i + 1)
Slice(s, a, b) == SubSeq(s, a + 1, b)          \* &s[a..b]

Digits == {"0", "1", "2", "3", "4", "5", "6", "7", "8", "9"}

DigitVal(c) ==
    CASE c = "0" -> 0 [] c = "1" -> 1 [] c = "2" -> 2 [] c = "3" -> 3
      [] c = "4" -> 4 [] c = "5" -> 5 [] c = "6" -> 6 [] c = "7" -> 7
      [] c = "8" -> 8 [] c = "9" -> 9

DigitChar(d) ==
    CASE d = 0 -> "0" [] d = 1 -> "1" [] d = 2 -> "2" [] d = 3 -> "3"
      [] d = 4 -> "4" [] d = 5 -> "5" [] d = 6 -> "6" [] d = 7 -> "7"
      [] d = 8 -> "8" [] d = 9 -> "9"

is_ascii_whitespace(b) == b \in {" ", "\t", "\r", "\n"}

(* char::is_whitespace, which str::trim, trim_end use: the ASCII *)
(* whitespace and, among others, form feed.                      *)
IsWhite(b) == b \in {" ", "\t", "\r", "\n", "\f"}

RECURSIVE TrimEndLen(_, _)
TrimEndLen(s, k) ==
    IF k > 0 /\ IsWhite(At(s, k - 1)) THEN TrimEndLen(s, k - 1) ELSE k

trim_end(s) == Slice(s, 0, TrimEndLen(s, Len(s)))

RECURSIVE TrimStartIdx(_, _)
TrimStartIdx(s, i) ==
    IF i < Len(s) /\ IsWhite(At(s, i)) THEN TrimStartIdx(s, i + 1) ELSE i

trim_start(s) == Slice(s, TrimStartIdx(s, 0), Len(s))

trim(s) == trim_start(trim_end(s))

----------------------------------------------------------------------------
(* Result<T, E>, and the `?` operator: Try(r, K) is `K(r?)`. *)
Ok(x) == [ok |-> TRUE, v |-> x]
Err(e) == [ok |-> FALSE, e |-> e]

Try(r, K(_)) == IF r.ok THEN K(r.v) ELSE r

(* A step that also advances the Lines cursor is [r |-> Result, L |-> Lines]. *)
With(r, L) == [r |-> r, L |-> L]
TryL(x, K(_, _)) == IF x.r.ok THEN K(x.r.v, x.L) ELSE x
TryR(r, L, K(_)) == IF r.ok THEN K(r.v) ELSE With(r, L)

(* ParseError { kind, path: None, line, col } (parse.rs:57).  An I/O failure *)
(* of the source is the other failure::Error that can come back; a panic is  *)
(* carried the same way and told apart by its kind.                          *)
ParseError(kind, msg, ln, col) == [kind |-> kind, msg |-> msg, line |-> ln, col |-> col]
IoError == [kind |-> "Io", msg |-> "io", line |-> None, col |-> None]
PanicError(msg) == [kind |-> "Panic", msg |-> msg, line |-> None, col |-> None]

(* Spanned { path: None, line, col, s } *)
Spanned(ln, col, s) == [line |-> ln, col |-> col, s |-> s]

SpanError(sp, kind, msg) == ParseError(kind, msg, Some(sp.line), Some(sp.col))

(* The sub-span with the start of the range as its column: a variant that *)
(* the words of a slice tell apart from the source.                       *)
SliceFromZero(sp, a, b) == Spanned(sp.line, a, Slice(sp.s, a, b))

(* Spanned::slice (parse.rs:189) *)
slice(sp, a, b) == Spanned(sp.line, sp.col + a, Slice(sp.s, a, b))

(* words(): the pairs (prev, cur) at index i of the zip at parse.rs:208-210 *)
Prev(s, i) == IF i = 0 THEN " " ELSE At(s, i - 1)
Cur(s, i) == IF i = Len(s) THEN " " ELSE At(s, i)

(* The inner loop at parse.rs:218: the first index from j on whose cur is *)
(* whitespace; Len(s) + 1 when the iterator runs out first (the panic).   *)
RECURSIVE WordEnd(_, _)
WordEnd(s, j) ==
    IF j > Len(s) THEN Len(s) + 1
    ELSE IF is_ascii_whitespace(Cur(s, j)) THEN j
    ELSE WordEnd(s, j + 1)

(* The outer loop at parse.rs:215 from index i on; WordsPush is the push *)
(* of the word start..end and the `continue 'start`.                     *)
RECURSIVE WordsFrom(_, _)
RECURSIVE WordsPush(_, _, _)
WordsFrom(sp, i) ==
    IF i > Len(sp.s) THEN <<>>
    ELSE IF is_ascii_whitespace(Prev(sp.s, i)) /\ ~is_ascii_whitespace(Cur(sp.s, i))
    THEN WordsPush(sp, i, WordEnd(sp.s, i + 1))
    ELSE WordsFrom(sp, i + 1)

WordsPush(sp, start, end) ==
    IF end > Len(sp.s) THEN <<>>
    ELSE <<slice(sp, start, end)>> \o WordsFrom(sp, end + 1)

words(sp) == WordsFrom(sp, 0)

(* Whether words() runs into its panic!("never encountered whitespace!") *)
(* (parse.rs:225): the inner loop ends without a whitespace cur.         *)
RECURSIVE WordsPanicFrom(_, _)
WordsPanicFrom(s, i) ==
    IF i > Len(s) THEN FALSE
    ELSE IF is_ascii_whitespace(Prev(s, i)) /\ ~is_ascii_whitespace(Cur(s, i))
    THEN (IF WordEnd(s, i + 1) > Len(s) THEN TRUE
          ELSE WordsPanicFrom(s, WordEnd(s, i + 1) + 1))
    ELSE WordsPanicFrom(s, i + 1)

words_panics(sp) == WordsPanicFrom(sp.s, 0)

(* Words::next_or_err on the k-th word (1-based) of a line *)
next_or_err(ws, k, sp, msg) ==
    IF k <= Len(ws) THEN Ok(ws[k])
    ELSE Err(ParseError("Generic", msg, Some(sp.line), None))

control_char(sp) == IF Len(sp.s) = 0 THEN None ELSE Some(At(sp.s, 0))

----------------------------------------------------------------------------
(* Lines::new: cur = 0, nothing taken from the source, Fuse not yet ended. *)
LinesNew == [cur |-> 0, pos |-> 0, fused |-> FALSE]

(* Lines::next with the end of file reported at a one-based line: a variant *)
(* that the tag of "unexpected end of file" tells apart from the source. *)
LinesNextOneBased(L) ==
    IF L.fused \/ L.pos >= Len(src)
    THEN With(Err(ParseError("Generic", "unexpected end of file", Some(L.cur + 1), None)),
              [L EXCEPT !.fused = TRUE])
    ELSE IF (L.pos + 1) \in bad
    THEN With(Err(IoError), [L EXCEPT !.pos = L.pos + 1])
    ELSE With(Ok(Spanned(L.cur, 0, src[L.pos + 1])),
              [L EXCEPT !.pos = L.pos + 1, !.cur = L.cur + 1])

(* Lines::next on an iterator that is not fused: a variant that a source *)
(* yielding again after its end tells apart from the source.             *)
LinesNextUnfused(L) ==
    IF L.pos >= Len(src)
    THEN With(Err(ParseError("Generic", "unexpected end of file", Some(L.cur), None)),
              [L EXCEPT !.fused = TRUE])
    ELSE IF (L.pos + 1) \in bad
    THEN With(Err(IoError), [L EXCEPT !.pos = L.pos + 1])
    ELSE With(Ok(Spanned(L.cur, 0, src[L.pos + 1])),
              [L EXCEPT !.pos = L.pos + 1, !.cur = L.cur + 1])

(* Lines::next (parse.rs:131) *)
LinesNext(L) ==
    IF L.fused \/ L.pos >= Len(src)
    THEN With(Err(ParseError("Generic", "unexpected end of file", Some(L.cur), None)),
              [L EXCEPT !.fused = TRUE])
    ELSE IF (L.pos + 1) \in bad
    THEN With(Err(IoError), [L EXCEPT !.pos = L.pos + 1])
    ELSE With(Ok(Spanned(L.cur, 0, src[L.pos + 1])),
              [L EXCEPT !.pos = L.pos + 1, !.cur = L.cur + 1])

(* Lines::expect_blank_until_eof (parse.rs:149): EbNext is the `while let *)
(* Ok(line) = self.next()`, EbLine the body of the loop.                  *)
RECURSIVE expect_blank_until_eof(_)
RECURSIVE EbNext(_)
RECURSIVE EbLine(_, _)
expect_blank_until_eof(L) == EbNext(LinesNext(L))

EbNext(nx) == IF nx.r.ok THEN EbLine(words(nx.r.v), nx.L) ELSE With(Ok(<<>>), nx.L)

(* The loop body without its check: a variant that the trailer rule *)
(* tells apart from the source.                                     *)
EbLineSkip(ws, L) == expect_blank_until_eof(L)

EbLine(ws, L) ==
    IF Len(ws) > 0 THEN With(Err(SpanError(ws[1], "Generic", "expected end of file")), L)
    ELSE expect_blank_until_eof(L)

----------------------------------------------------------------------------
(* Real numbers.  f64 is modelled by the decimals m * 10^e (m not a multiple *)
(* of 10 unless zero), NaN and the infinities; `neg` is the sign bit.        *)
Num(neg, m, e) == [cls |-> "num", neg |-> neg, m |-> m, e |-> e]
NaN == [cls |-> "nan", neg |-> FALSE, m |-> 0, e |-> 0]
Inf(neg) == [cls |-> "inf", neg |-> neg, m |-> 0, e |-> 0]

RECURSIVE Pow10(_)
Pow10(k) == IF k = 0 THEN 1 ELSE 10 * Pow10(k - 1)

RECURSIVE Normalize(_, _, _)
Normalize(neg, m, e) ==
    IF m = 0 THEN Num(neg, 0, 0)
    ELSE IF m % 10 = 0 THEN Normalize(neg, m \div 10, e + 1)
    ELSE Num(neg, m, e)

(* The index where the run of decimal digits starting at i ends. *)
RECURSIVE DigitsEnd(_, _)
DigitsEnd(s, i) ==
    IF i < Len(s) /\ At(s, i) \in Digits THEN DigitsEnd(s, i + 1) ELSE i

(* The number the digits s[a..b) spell (0 for an empty range). *)
RECURSIVE NumVal(_, _, _)
NumVal(s, a, b) ==
    IF b <= a THEN 0 ELSE 10 * NumVal(s, a, b - 1) + DigitVal(At(s, b - 1))

(* <f64 as FromStr>::from_str: [sign] (inf | infinity | nan | digits [. digits] *)
(* [(e|E) [sign] digits]) with at least one mantissa digit, and nothing after.   *)
(* s[i..a) are the integer digits, s[a+1..b) the fraction digits when s[a] is    *)
(* the point (else b = a), s[j..k) the exponent digits.                          *)
HasSign(s, i) == i < Len(s) /\ At(s, i) \in {"+", "-"}
IsNeg(s, i) == i < Len(s) /\ At(s, i) = "-"
HasDot(s, a) == a < Len(s) /\ At(s, a) = "."
FracLen(s, a, b) == IF HasDot(s, a) THEN b - (a + 1) ELSE 0

Mantissa(s, i, a, b) ==
    NumVal(s, i, a) * Pow10(FracLen(s, a, b))
    + (IF HasDot(s, a) THEN NumVal(s, a + 1, b) ELSE 0)

Exponent(s, b, j, k) == IF IsNeg(s, b + 1) THEN 0 - NumVal(s, j, k) ELSE NumVal(s, j, k)

ParseExp(s, i, a, b, j, k) ==
    IF k > j /\ k = Len(s)
    THEN Ok(Normalize(IsNeg(s, 0), Mantissa(s, i, a, b),
                      Exponent(s, b, j, k) - FracLen(s, a, b)))
    ELSE Err("ParseFloat")

ParseExpFrom(s, i, a, b, j) == ParseExp(s, i, a, b, j, DigitsEnd(s, j))

ParseNumber(s, i, a, b) ==
    IF (a - i) + FracLen(s, a, b) = 0 THEN Err("ParseFloat")
    ELSE IF b = Len(s)
    THEN Ok(Normalize(IsNeg(s, 0), Mantissa(s, i, a, b), 0 - FracLen(s, a, b)))
    ELSE IF At(s, b) \in {"e", "E"}
    THEN ParseExpFrom(s, i, a, b, IF HasSign(s, b + 1) THEN b + 2 ELSE b + 1)
    ELSE Err("ParseFloat")

ParseMantissa(s, i, a) ==
    ParseNumber(s, i, a, IF HasDot(s, a) THEN DigitsEnd(s, a + 1) ELSE a)

ParseUnsignedF64(s, i, rest) ==
    IF rest \in {"nan", "NaN", "NAN"} THEN Ok(NaN)
    ELSE IF rest \in {"inf", "Inf", "INF", "infinity"} THEN Ok(Inf(IsNeg(s, 0)))
    ELSE ParseMantissa(s, i, DigitsEnd(s, i))

ParseF64From(s, i) == ParseUnsignedF64(s, i, Slice(s, i, Len(s)))

ParseF64(s) == ParseF64From(s, IF HasSign(s, 0) THEN 1 ELSE 0)

(* value.partial_cmp(&0.0) *)
partial_cmp_zero(v) ==
    IF v.cls = "nan" THEN None
    ELSE IF v.cls = "num" /\ v.m = 0 THEN Some("Equal")
    ELSE IF v.neg THEN Some("Less")
    ELSE Some("Greater")

Negate(v) == [v EXCEPT !.neg = ~v.neg]

RECURSIVE NatStr(_)
NatStr(k) == IF k < 10 THEN DigitChar(k) ELSE NatStr(k \div 10) \o DigitChar(k % 10)

RECURSIVE Zeros(_)
Zeros(k) == IF k <= 0 THEN "" ELSE "0" \o Zeros(k - 1)

IntStr(k) == IF k < 0 THEN "-" \o NatStr(0 - k) ELSE NatStr(k)

(* Dtoa (write.rs:98): dtoa::write, the shortest decimal that reads back as *)
(* the same f64, laid out by dtoa's prettify: ds are the digits, e the      *)
(* decimal exponent, kk the position of the point.  dtoa writes the sign    *)
(* and then, for NaN and the infinities, digits it leaves unspecified: g is *)
(* that text, any of NonFiniteTexts.                                        *)
NonFiniteTexts == {"NaN", "inf", "1.5e308", "?"}

Prettify(ds, e, kk) ==
    IF 0 <= e /\ kk <= 21 THEN ds \o Zeros(e) \o ".0"
    ELSE IF 0 < kk /\ kk <= 21 THEN Slice(ds, 0, kk) \o "." \o Slice(ds, kk, Len(ds))
    ELSE IF -6 < kk /\ kk <= 0 THEN "0." \o Zeros(0 - kk) \o ds
    ELSE IF Len(ds) = 1 THEN ds \o "e" \o IntStr(kk - 1)
    ELSE Slice(ds, 0, 1) \o "." \o Slice(ds, 1, Len(ds)) \o "e" \o IntStr(kk - 1)

DtoaDigits(v, ds) == IF v.m = 0 THEN "0.0" ELSE Prettify(ds, v.e, Len(ds) + v.e)

Dtoa(v, g) ==
    (IF v.neg THEN "-" ELSE "") \o (IF v.cls = "num" THEN DtoaDigits(v, NatStr(v.m)) ELSE g)

----------------------------------------------------------------------------
(* The letter taken only when nothing follows it: a variant that a *)
(* literal such as .TRUE. tells apart from the source.              *)
LogicalLetterOnly(input, s) ==
    IF Len(s) = 1 /\ At(s, 0) \in {"t", "T"} THEN Ok(TRUE)
    ELSE IF Len(s) = 1 /\ At(s, 0) \in {"f", "F"} THEN Ok(FALSE)
    ELSE Err("ParseLogical")

(* impl FromStr for Logical (parse.rs:304) *)
LogicalLetter(input, s) ==
    IF Len(s) > 0 /\ At(s, 0) \in {"t", "T"} THEN Ok(TRUE)
    ELSE IF Len(s) > 0 /\ At(s, 0) \in {"f", "F"} THEN Ok(FALSE)
    ELSE Err("ParseLogical")

ParseLogical(input) ==
    LogicalLetter(input, IF Len(input) > 0 /\ At(input, 0) = "."
                         THEN Slice(input, 1, Len(input)) ELSE input)

(* Whether the digits of s, without leading zeros, exceed u64::MAX. *)
U64MaxStr == "18446744073709551615"

RECURSIVE DigitsGreater(_, _, _)
DigitsGreater(x, y, i) ==
    IF i >= Len(x) THEN FALSE
    ELSE IF DigitVal(At(x, i)) > DigitVal(At(y, i)) THEN TRUE
    ELSE IF DigitVal(At(x, i)) < DigitVal(At(y, i)) THEN FALSE
    ELSE DigitsGreater(x, y, i + 1)

RECURSIVE StripZeros(_)
StripZeros(s) == IF Len(s) > 1 /\ At(s, 0) = "0" THEN StripZeros(Slice(s, 1, Len(s))) ELSE s

ExceedsU64(z) ==
    Len(z) > Len(U64MaxStr) \/ (Len(z) = Len(U64MaxStr) /\ DigitsGreater(z, U64MaxStr, 0))

OverflowsU64(s) == ExceedsU64(StripZeros(s))

(* u64's own grammar, which takes a leading '+': a variant that the counts *)
(* line tells apart from the source.                                 *)
ParseUnsignedSigned(input) ==
    IF Len(input) > 0 /\ At(input, 0) = "+"
    THEN (IF Len(input) = 1 \/ DigitsEnd(input, 1) # Len(input) THEN Err("ParseUnsigned")
          ELSE Ok(NumVal(input, 1, Len(input))))
    ELSE IF Len(input) = 0 \/ DigitsEnd(input, 0) # Len(input) THEN Err("ParseUnsigned")
    ELSE Ok(NumVal(input, 0, Len(input)))

(* impl FromStr for Unsigned (parse.rs:339): u64's grammar without the '+' *)
ParseUnsigned(input) ==
    IF Len(input) > 0 /\ At(input, 0) = "+" THEN Err("ParseUnsigned")
    ELSE IF Len(input) = 0 \/ DigitsEnd(input, 0) # Len(input) THEN Err("ParseUnsigned")
    ELSE IF OverflowsU64(input) THEN Err("ParseUnsigned")
    ELSE Ok(NumVal(input, 0, Len(input)))

parse_unsigned(s) == ParseUnsigned(s)

(* is_valid_symbol_for_symbol_line (parse.rs:355) *)
is_valid_symbol_for_symbol_line(s) ==
    IF Len(s) = 0 THEN FALSE
    ELSE IF \E i \in 0..(Len(s) - 1) : is_ascii_whitespace(At(s, i)) THEN FALSE
    ELSE At(s, 0) \notin Digits

(* The category read off the first byte that is not whitespace: a variant *)
(* that an indented line tells apart from the source.                     *)
ClassifyTrimmedStart(t) ==
    IF Len(trim_start(t)) = 0 THEN "EmptyOrWhitespace"
    ELSE IF At(trim_start(t), 0) \in {"c", "C", "k", "K"} THEN "Cartesian"
    ELSE IF At(trim_start(t), 0) \in {"d", "D"} THEN "Direct"
    ELSE "SuspiciouslyDirect"

(* classify_coord_line (parse.rs:387); t is the line after trim_end *)
ClassifyTrimmed(t) ==
    IF Len(t) = 0 THEN "EmptyOrWhitespace"
    ELSE IF At(t, 0) \in {"c", "C", "k", "K"} THEN "Cartesian"
    ELSE IF At(t, 0) \in {"d", "D"} THEN "Direct"
    ELSE IF is_ascii_whitespace(At(t, 0)) THEN "IndentedText"
    ELSE "SuspiciouslyDirect"

classify_coord_line(ln) == ClassifyTrimmed(trim_end(ln))

----------------------------------------------------------------------------
(* Spanned::parse::<T>() (parse.rs:235): the literal's error, if any, is *)
(* tagged with the span's line and column.                               *)
TagError(sp, p) == IF p.ok THEN p ELSE Err(SpanError(sp, p.e, ""))

SpanParseF64(sp) == TagError(sp, ParseF64(sp.s))
SpanParseLogical(sp) == TagError(sp, ParseLogical(sp.s))

(* words.next_or_err(msg)?.parse()? on the k-th word *)
NextF64(ws, k, sp, msg) ==
    Try(next_or_err(ws, k, sp, msg), LAMBDA w : SpanParseF64(w))

NextLogical(ws, k, sp, msg) ==
    Try(next_or_err(ws, k, sp, msg), LAMBDA w : SpanParseLogical(w))

(* arr_3![_ => words.next_or_err(msg)?.parse()?] on the words k0+1..k0+3 *)
Arr3F64(ws, k0, sp, msg) ==
    Try(NextF64(ws, k0 + 1, sp, msg), LAMBDA a :
    Try(NextF64(ws, k0 + 2, sp, msg), LAMBDA b :
    Try(NextF64(ws, k0 + 3, sp, msg), LAMBDA c : Ok(<<a, b, c>>))))

Arr3Logical(ws, k0, sp, msg) ==
    Try(NextLogical(ws, k0 + 1, sp, msg), LAMBDA a :
    Try(NextLogical(ws, k0 + 2, sp, msg), LAMBDA b :
    Try(NextLogical(ws, k0 + 3, sp, msg), LAMBDA c : Ok(<<a, b, c>>))))

(* The scale with a negative value stored as read: a variant that the scale *)
(* line tells apart from the source.                                   *)
ScaleOfOrderingSigned(word, value, c) ==
    IF c = Some("Less") THEN Ok([kind |-> "Volume", v |-> value])
    ELSE IF c = Some("Greater") THEN Ok([kind |-> "Factor", v |-> value])
    ELSE IF c = Some("Equal") THEN Err(SpanError(word, "Generic", "scale cannot be zero"))
    ELSE Err(SpanError(word, "Generic", "scale cannot be nan"))

(* The scale a value stands for (parse.rs:418-423); c is its comparison with 0.0. *)
ScaleOfOrdering(word, value, c) ==
    IF c = Some("Less") THEN Ok([kind |-> "Volume", v |-> Negate(value)])
    ELSE IF c = Some("Greater") THEN Ok([kind |-> "Factor", v |-> value])
    ELSE IF c = Some("Equal") THEN Err(SpanError(word, "Generic", "scale cannot be zero"))
    ELSE Err(SpanError(word, "Generic", "scale cannot be nan"))

ScaleOfValue(word, value) == ScaleOfOrdering(word, value, partial_cmp_zero(value))

(* The guard against a second float on the scale line (parse.rs:440-444). *)
TooManyFloats(ws) == Len(ws) >= 2 /\ ParseF64(ws[2].s).ok

ScaleOfWords(sp, ws) ==
    Try(next_or_err(ws, 1, sp, "expected scale"), LAMBDA word :
    Try(SpanParseF64(word), LAMBDA value :
    Try(ScaleOfValue(word, value), LAMBDA sc :
        IF TooManyFloats(ws)
        THEN Err(SpanError(ws[2], "Generic",
                           "too many floats on scale line (expected just one)"))
        ELSE Ok(sc))))

(* The scale block (parse.rs:409-445) on its line. *)
ParseScaleLine(sp) == ScaleOfWords(sp, words(sp))

(* k lines of three reals each. *)
RECURSIVE ReadRows(_, _, _)
ReadRows(L, k, msg) ==
    IF k = 0 THEN With(Ok(<<>>), L)
    ELSE TryL(LinesNext(L), LAMBDA sp, L1 :
         TryR(Arr3F64(words(sp), 0, sp, msg), L1, LAMBDA row :
         TryL(ReadRows(L1, k - 1, msg), LAMBDA rest, L2 :
              With(Ok(<<row>> \o rest), L2))))

(* Whether the line after the lattice is the counts line (parse.rs:464-466); *)
(* evaluated only where trim() left a first byte.                           *)
StartsWithDigit(s) == At(trim(s), 0) \in Digits

(* The symbols of the symbol line, or the first "invalid symbol" (parse.rs:470-475). *)
RECURSIVE KindsFrom(_, _)
KindsFrom(ws, k) ==
    IF k > Len(ws) THEN Ok(<<>>)
    ELSE IF ~is_valid_symbol_for_symbol_line(ws[k].s)
    THEN Err(SpanError(ws[k], "Generic", "invalid symbol"))
    ELSE Try(KindsFrom(ws, k + 1), LAMBDA more : Ok(<<ws[k].s>> \o more))

(* counts_line.words().map(parse_unsigned).take_while(is_ok).collect() (parse.rs:480-485) *)
RECURSIVE CountsFrom(_, _)
RECURSIVE CountsTake(_, _, _)
CountsFrom(ws, k) ==
    IF k > Len(ws) THEN <<>> ELSE CountsTake(ws, k, parse_unsigned(ws[k].s))

CountsTake(ws, k, c) == IF c.ok THEN <<c.v>> \o CountsFrom(ws, k + 1) ELSE <<>>

GroupCounts(sp) == CountsFrom(words(sp), 1)

RECURSIVE Sum(_)
Sum(xs) == IF Len(xs) = 0 THEN 0 ELSE Head(xs) + Sum(Tail(xs))

(* The checks without the comparison of the two lengths: a variant that the *)
(* invariants of the Document tell apart from the source.              *)
CheckCountsNoLength(symbols, counts, counts_line) ==
    IF Sum(counts) = 0
    THEN Err(SpanError(counts_line, "Generic", "There must be at least one atom."))
    ELSE Ok(Sum(counts))

(* The checks on the parsed counts (parse.rs:487-496): Result<n>. *)
CheckCounts(symbols, counts, counts_line) ==
    IF IsSome(symbols) /\ Len(Unwrap(symbols)) # Len(counts)
    THEN Err(SpanError(counts_line, "Generic", "Inconsistent number of counts"))
    ELSE IF Sum(counts) = 0
    THEN Err(SpanError(counts_line, "Generic", "There must be at least one atom."))
    ELSE Ok(Sum(counts))

CountsChecked(symbols, counts, counts_line, L) ==
    TryR(CheckCounts(symbols, counts, counts_line), L, LAMBDA nn :
         With(Ok([symbols |-> symbols, counts |-> counts, n |-> nn]), L))

CountsOf(symbols, counts_line, L) ==
    CountsChecked(symbols, GroupCounts(counts_line), counts_line, L)

(* symbols and counts (parse.rs:457-499) *)
SymbolsAndCounts(L) ==
    TryL(LinesNext(L), LAMBDA ln, L1 :
    TryR(next_or_err(words(ln), 1, ln, "expected at least one element or count"), L1,
         LAMBDA any :
         IF Len(trim(ln.s)) = 0
         THEN With(Err(PanicError("index out of bounds")), L1)
         ELSE IF StartsWithDigit(ln.s) THEN CountsOf(None, ln, L1)
         ELSE TryR(KindsFrom(words(ln), 1), L1, LAMBDA kinds :
              TryL(LinesNext(L1), LAMBDA counts_line, L2 :
                   CountsOf(Some(kinds), counts_line, L2)))))

(* has_direct of a coordinate-system line (parse.rs:513-521). *)
HasDirect(s) == classify_coord_line(s) # "Cartesian"

(* The switch read off the first character that is not whitespace: a *)
(* variant that an indented flag line tells apart from the source.    *)
IsSelectiveTrimmed(sp) ==
    Len(trim(sp.s)) > 0 /\ At(trim(sp.s), 0) \in {"s", "S"}

(* Whether the line switches selective dynamics on (parse.rs:507-509). *)
IsSelective(sp) == control_char(sp) \in {Some("s"), Some("S")}

(* flag lines (parse.rs:503-523) *)
FlagLines(L) ==
    TryL(LinesNext(L), LAMBDA l1, L1 :
         IF IsSelective(l1)
         THEN TryL(LinesNext(L1), LAMBDA l2, L2 :
                   With(Ok([sd |-> TRUE, direct |-> HasDirect(l2.s)]), L2))
         ELSE With(Ok([sd |-> FALSE, direct |-> HasDirect(l1.s)]), L1))

(* One position line (parse.rs:534-546): the coordinates and, under *)
(* selective dynamics, the flags.                                   *)
PositionLine(sp, ws, sd) ==
    Try(Arr3F64(ws, 0, sp, "expected 3 coordinates"), LAMBDA xyz :
        IF sd
        THEN Try(Arr3Logical(ws, 3, sp, "expected 3 boolean flags"), LAMBDA fl :
                 Ok([xyz |-> xyz, flags |-> <<fl>>]))
        ELSE Ok([xyz |-> xyz, flags |-> <<>>]))

(* k position lines (parse.rs:533-547) *)
RECURSIVE ReadPositionLines(_, _, _)
ReadPositionLines(L, k, sd) ==
    IF k = 0 THEN With(Ok([pos |-> <<>>, dyn |-> <<>>]), L)
    ELSE TryL(LinesNext(L), LAMBDA sp, L1 :
         TryR(PositionLine(sp, words(sp), sd), L1, LAMBDA p :
         TryL(ReadPositionLines(L1, k - 1, sd), LAMBDA rest, L2 :
              With(Ok([pos |-> <<p.xyz>> \o rest.pos, dyn |-> p.flags \o rest.dyn]), L2))))

(* A look-ahead that always promises velocities: a variant that the end of *)
(* the file after the positions tells apart from the source.          *)
PresenceRequired(s) == "Required"

(* PresenceIs of the first line after the positions (parse.rs:583-596). *)
PresenceOf(s) ==
    IF classify_coord_line(s) = "EmptyOrWhitespace" THEN "Possible" ELSE "Required"

(* The velocity lines (parse.rs:639-650): the line already held, then *)
(* one_less more.                                                      *)
ReadVelocityLines(L, held, one_less) ==
    TryR(Arr3F64(words(held), 0, held, "expected 3 coordinates"), L, LAMBDA row :
    TryL(ReadRows(L, one_less, "expected 3 coordinates"), LAMBDA rest, L2 :
         With(Ok(<<row>> \o rest), L2)))

(* Coordinates tagged Cartesian whatever the flag: a variant that the tag of *)
(* the velocity block tells apart from the source.                      *)
CoordsOfCartesian(direct, v) == [tag |-> "Cart", v |-> v]

(* Coords::Frac(v) or Coords::Cart(v) (parse.rs:553-556, 652-657) *)
CoordsOf(direct, v) == [tag |-> IF direct THEN "Frac" ELSE "Cart", v |-> v]

----------------------------------------------------------------------------
(* The writer (write.rs). *)

(* format!("{:>2}", s) *)
Pad2(s) == IF Len(s) >= 2 THEN s ELSE IF Len(s) = 1 THEN " " \o s ELSE "  "

(* write_sep (write.rs:82) *)
RECURSIVE write_sep(_, _)
write_sep(sep, xs) ==
    IF Len(xs) = 0 THEN ""
    ELSE IF Len(xs) = 1 THEN xs[1]
    ELSE xs[1] \o sep \o write_sep(sep, Tail(xs))

(* By3(arr, Dtoa) and By3(arr, |b| 'T'/'F') (write.rs:110) *)
By3Dtoa(a, g) == Dtoa(a[1], g) \o " " \o Dtoa(a[2], g) \o " " \o Dtoa(a[3], g)
FlagChar(b) == IF b THEN "T" ELSE "F"
By3Flags(a) == FlagChar(a[1]) \o " " \o FlagChar(a[2]) \o " " \o FlagChar(a[3])

Contains(s, b) == \E i \in 0..(Len(s) - 1) : At(s, i) = b

(* the scale line (write.rs:27-30) *)
ScaleText(sc, g) ==
    IF sc.kind = "Factor" THEN "  " \o Dtoa(sc.v, g) ELSE "  -" \o Dtoa(sc.v, g)

(* lines of three reals behind an indent (write.rs:32-34, 74-76) *)
RECURSIVE RowsText(_, _, _)
RowsText(rows, indent, g) ==
    IF Len(rows) = 0 THEN ""
    ELSE indent \o By3Dtoa(rows[1], g) \o "\n" \o RowsText(Tail(rows), indent, g)

(* the header of the velocity block (write.rs:67-71) *)
VelocityHeader(tag) == IF tag = "Cart" THEN "Cartesian" ELSE ""

(* The coordinate lines with their flags (write.rs:57-64); dynamics[i] is *)
(* read for every i, so it must be as long as the coordinates.            *)
RECURSIVE CoordsText(_, _, _, _)
CoordsText(coords, dyn, i, g) ==
    IF i > Len(coords) THEN ""
    ELSE "  " \o By3Dtoa(coords[i], g)
         \o (IF IsSome(dyn) THEN " " \o By3Flags(Unwrap(dyn)[i]) ELSE "")
         \o "\n" \o CoordsText(coords, dyn, i + 1, g)

(* The assertions and the index of to_writer that can panic. *)
WriterPanics(d) ==
    \/ Contains(d.comment, "\n")
    \/ Contains(d.comment, "\r")
    \/ Len(d.group_counts) = 0
    \/ IsSome(d.dynamics) /\ Len(Unwrap(d.dynamics)) < Len(d.positions.v)

RECURSIVE MapPad2(_)
MapPad2(xs) == IF Len(xs) = 0 THEN <<>> ELSE <<Pad2(Head(xs))>> \o MapPad2(Tail(xs))

RECURSIVE MapNatStr(_)
MapNatStr(xs) == IF Len(xs) = 0 THEN <<>> ELSE <<NatStr(Head(xs))>> \o MapNatStr(Tail(xs))

(* to_writer into a Vec<u8> (write.rs:11-80): the bytes written. *)
to_writer(d, g) ==
    d.comment \o "\n"
    \o ScaleText(d.scale, g) \o "\n"
    \o RowsText(d.lattice_vectors, "    ", g)
    \o (IF IsSome(d.group_symbols)
        THEN "  " \o write_sep(" ", MapPad2(Unwrap(d.group_symbols))) \o "\n"
        ELSE "")
    \o "  " \o write_sep(" ", MapPad2(MapNatStr(d.group_counts))) \o "\n"
    \o (IF IsSome(d.dynamics) THEN "Selective Dynamics\n" ELSE "")
    \o (IF d.positions.tag = "Cart" THEN "Cartesian\n" ELSE "Direct\n")
    \o CoordsText(d.positions.v, d.dynamics, 1, g)
    \o (IF IsSome(d.velocities)
        THEN VelocityHeader(Unwrap(d.velocities).tag) \o "\n"
             \o RowsText(Unwrap(d.velocities).v, "  ", g)
        ELSE "")

(* BufRead::lines on a byte string: split after each "\n", dropping it and *)
(* a "\r" right before it; a last line without terminator is kept as is.   *)
RECURSIVE NewlineIdx(_, _)
NewlineIdx(s, i) ==
    IF i >= Len(s) THEN Len(s) ELSE IF At(s, i) = "\n" THEN i ELSE NewlineIdx(s, i + 1)

StripCr(s) == IF Len(s) > 0 /\ At(s, Len(s) - 1) = "\r" THEN Slice(s, 0, Len(s) - 1) ELSE s

RECURSIVE BufLines(_)
RECURSIVE BufLinesAt(_, _)
BufLines(s) == IF Len(s) = 0 THEN <<>> ELSE BufLinesAt(s, NewlineIdx(s, 0))

BufLinesAt(s, i) ==
    IF i = Len(s) THEN <<s>>
    ELSE <<StripCr(Slice(s, 0, i))>> \o BufLines(Slice(s, i + 1, Len(s)))

----------------------------------------------------------------------------
(* RawPoscar and its validation.  validate is defined outside parse.rs and  *)
(* write.rs; it is modelled on the Invariants of the specification's data   *)
(* model: the lengths agree and there is at least one atom.                 *)
RawPoscar ==
    [comment |-> comment, scale |-> scale, positions |-> positions,
     lattice_vectors |-> lattice_vectors, group_symbols |-> group_symbols,
     group_counts |-> group_counts, velocities |-> velocities, dynamics |-> dynamics]

validate(d) ==
    /\ IsSome(d.group_symbols) => Len(Unwrap(d.group_symbols)) = Len(d.group_counts)
    /\ Sum(d.group_counts) >= 1
    /\ Len(d.positions.v) = Sum(d.group_counts)
    /\ IsSome(d.dynamics) => Len(Unwrap(d.dynamics)) = Sum(d.group_counts)
    /\ IsSome(d.velocities) => Len(Unwrap(d.velocities).v) = Sum(d.group_counts)

----------------------------------------------------------------------------
(* _from_reader (parse.rs:402-672), one action per section.  Each section  *)
(* is computed by an operator above and applied by a Do... operator below. *)

locals == <<comment, scale, lattice_vectors, group_symbols, group_counts, n,
            has_selective_dynamics, has_direct, positions, dynamics,
            line, status, vel_direct, velocities>>

(* An early return with an error, or a panic. *)
Fail(e) == /\ result' = Some([kind |-> IF e.kind = "Panic" THEN "Panic" ELSE "Err", e |-> e])
           /\ pc' = "done"

Goto(next) == pc' = next /\ UNCHANGED result

(* let comment = lines.next()?.as_str().to_string();  (parse.rs:407) *)
DoComment(x) ==
    /\ lines' = x.L
    /\ IF x.r.ok THEN Goto("scale") /\ comment' = x.r.v.s
       ELSE Fail(x.r.e) /\ UNCHANGED comment

ReadComment ==
    /\ pc = "comment"
    /\ DoComment(LinesNext(lines))
    /\ UNCHANGED <<src, bad, pass, first, out, unit>>
    /\ UNCHANGED <<scale, lattice_vectors, group_symbols, group_counts, n,
                   has_selective_dynamics, has_direct, positions, dynamics,
                   line, status, vel_direct, velocities>>

(* the scale block  (parse.rs:409-445) *)
ScaleBlock(L) == TryL(LinesNext(L), LAMBDA sp, L1 : With(ParseScaleLine(sp), L1))

DoScale(x) ==
    /\ lines' = x.L
    /\ IF x.r.ok THEN Goto("lattice") /\ scale' = x.r.v
       ELSE Fail(x.r.e) /\ UNCHANGED scale

ReadScale ==
    /\ pc = "scale"
    /\ DoScale(ScaleBlock(lines))
    /\ UNCHANGED <<src, bad, pass, first, out, unit>>
    /\ UNCHANGED <<comment, lattice_vectors, group_symbols, group_counts, n,
                   has_selective_dynamics, has_direct, positions, dynamics,
                   line, status, vel_direct, velocities>>

(* the three lattice vectors  (parse.rs:447-454) *)
DoLattice(x) ==
    /\ lines' = x.L
    /\ IF x.r.ok THEN Goto("symbols") /\ lattice_vectors' = x.r.v
       ELSE Fail(x.r.e) /\ UNCHANGED lattice_vectors

ReadLattice ==
    /\ pc = "lattice"
    /\ DoLattice(ReadRows(lines, 3, "expected three components for lattice vector"))
    /\ UNCHANGED <<src, bad, pass, first, out, unit>>
    /\ UNCHANGED <<comment, scale, group_symbols, group_counts, n,
                   has_selective_dynamics, has_direct, positions, dynamics,
                   line, status, vel_direct, velocities>>

(* symbols and counts  (parse.rs:457-499) *)
DoSymbolsCounts(x) ==
    /\ lines' = x.L
    /\ IF x.r.ok
       THEN /\ Goto("flags")
            /\ group_symbols' = x.r.v.symbols
            /\ group_counts' = x.r.v.counts
            /\ n' = x.r.v.n
       ELSE Fail(x.r.e) /\ UNCHANGED <<group_symbols, group_counts, n>>

ReadSymbolsCounts ==
    /\ pc = "symbols"
    /\ DoSymbolsCounts(SymbolsAndCounts(lines))
    /\ UNCHANGED <<src, bad, pass, first, out, unit>>
    /\ UNCHANGED <<comment, scale, lattice_vectors,
                   has_selective_dynamics, has_direct, positions, dynamics,
                   line, status, vel_direct, velocities>>

(* flag lines  (parse.rs:503-523) *)
DoFlags(x) ==
    /\ lines' = x.L
    /\ IF x.r.ok
       THEN /\ Goto("positions")
            /\ has_selective_dynamics' = x.r.v.sd
            /\ has_direct' = x.r.v.direct
       ELSE Fail(x.r.e) /\ UNCHANGED <<has_selective_dynamics, has_direct>>

ReadFlags ==
    /\ pc = "flags"
    /\ DoFlags(FlagLines(lines))
    /\ UNCHANGED <<src, bad, pass, first, out, unit>>
    /\ UNCHANGED <<comment, scale, lattice_vectors, group_symbols, group_counts, n,
                   positions, dynamics, line, status, vel_direct, velocities>>

(* data lines  (parse.rs:526-557) *)
DoPositions(x) ==
    /\ lines' = x.L
    /\ IF x.r.ok
       THEN /\ Goto("vel1")
            /\ positions' = CoordsOf(has_direct, x.r.v.pos)
            /\ dynamics' = IF has_selective_dynamics THEN Some(x.r.v.dyn) ELSE None
       ELSE Fail(x.r.e) /\ UNCHANGED <<positions, dynamics>>

ReadPositions ==
    /\ pc = "positions"
    /\ DoPositions(ReadPositionLines(lines, n, has_selective_dynamics))
    /\ UNCHANGED <<src, bad, pass, first, out, unit>>
    /\ UNCHANGED <<comment, scale, lattice_vectors, group_symbols, group_counts, n,
                   has_selective_dynamics, has_direct,
                   line, status, vel_direct, velocities>>

(* velocities: does the file just end?  (parse.rs:571-596) *)
DoVelFirst(x) ==
    /\ lines' = x.L
    /\ IF x.r.ok
       THEN /\ vel_direct' = HasDirect(x.r.v.s)
            /\ status' = PresenceOf(x.r.v.s)
            /\ Goto("vel2")
            /\ UNCHANGED velocities
       ELSE /\ velocities' = None
            /\ Goto("trailer")
            /\ UNCHANGED <<status, vel_direct>>

VelFirst ==
    /\ pc = "vel1"
    /\ DoVelFirst(LinesNext(lines))
    /\ UNCHANGED <<src, bad, pass, first, out, unit>>
    /\ UNCHANGED <<comment, scale, lattice_vectors, group_symbols, group_counts, n,
                   has_selective_dynamics, has_direct, positions, dynamics, line>>

(* velocities: eagerly read one more line  (parse.rs:598-615) *)
DoVelSecond(x) ==
    /\ lines' = x.L
    /\ IF x.r.ok THEN line' = x.r.v /\ Goto("vel3") /\ UNCHANGED velocities
       ELSE IF status = "Required" THEN Fail(x.r.e) /\ UNCHANGED <<line, velocities>>
       ELSE velocities' = None /\ Goto("trailer") /\ UNCHANGED line

VelSecond ==
    /\ pc = "vel2"
    /\ DoVelSecond(LinesNext(lines))
    /\ UNCHANGED <<src, bad, pass, first, out, unit>>
    /\ UNCHANGED <<comment, scale, lattice_vectors, group_symbols, group_counts, n,
                   has_selective_dynamics, has_direct, positions, dynamics,
                   status, vel_direct>>

(* A blank first line that always ends the file: a variant that the line *)
(* after one blank line tells apart from the source.                *)
VelocityBlockBlankEnds(L) ==
    IF status = "Possible"
    THEN (IF Len(words(line)) > 0
          THEN With(Err(SpanError(words(line)[1], "Generic", "expected end of file")), L)
          ELSE TryL(expect_blank_until_eof(L), LAMBDA u, L1 : With(Ok(None), L1)))
    ELSE IF n < 1 THEN With(Err(PanicError("BUG")), L)
    ELSE TryL(ReadVelocityLines(L, line, n - 1), LAMBDA v, L1 :
              With(Ok(Some(CoordsOf(vel_direct, v))), L1))

(* velocities: blank again, or the first of n velocity lines  (parse.rs:617-660) *)
VelocityBlock(L) ==
    IF status = "Possible" /\ Len(trim(line.s)) = 0
    THEN TryL(expect_blank_until_eof(L), LAMBDA u, L1 : With(Ok(None), L1))
    ELSE IF n < 1 THEN With(Err(PanicError("BUG")), L)
    ELSE TryL(ReadVelocityLines(L, line, n - 1), LAMBDA v, L1 :
              With(Ok(Some(CoordsOf(vel_direct, v))), L1))

DoVelDecide(x) ==
    /\ lines' = x.L
    /\ IF x.r.ok THEN velocities' = x.r.v /\ Goto("trailer")
       ELSE Fail(x.r.e) /\ UNCHANGED velocities

VelDecide ==
    /\ pc = "vel3"
    /\ DoVelDecide(VelocityBlock(lines))
    /\ UNCHANGED <<src, bad, pass, first, out, unit>>
    /\ UNCHANGED <<comment, scale, lattice_vectors, group_symbols, group_counts, n,
                   has_selective_dynamics, has_direct, positions, dynamics,
                   line, status, vel_direct>>

(* lines.expect_blank_until_eof()?  (parse.rs:665) *)
DoTrailer(x) ==
    /\ lines' = x.L
    /\ IF x.r.ok THEN Goto("assemble") ELSE Fail(x.r.e)

Trailer ==
    /\ pc = "trailer"
    /\ DoTrailer(expect_blank_until_eof(lines))
    /\ UNCHANGED <<src, bad, pass, first, out, unit>>
    /\ UNCHANGED locals

(* Ok(RawPoscar { .. }.validate().expect(..))  (parse.rs:667-671) *)
Assemble ==
    /\ pc = "assemble"
    /\ IF validate(RawPoscar)
       THEN result' = Some([kind |-> "Ok", doc |-> RawPoscar]) /\ pc' = "done"
       ELSE Fail(PanicError("an invariant was not checked during parsing (this is a bug!)"))
    /\ UNCHANGED <<src, bad, lines, pass, first, out, unit>>
    /\ UNCHANGED locals

----------------------------------------------------------------------------
(* The round trip: the Document of the first parse is written with *)
(* to_writer (tests/parse.rs:155-157) and the bytes are parsed again. *)
Returned == pc = "done" /\ IsSome(result)
ParsedOk == Returned /\ Unwrap(result).kind = "Ok"
Failed == Returned /\ Unwrap(result).kind = "Err"
Panicked == Returned /\ Unwrap(result).kind = "Panic"

DoWrite(d, g) ==
    /\ first' = Some(d)
    /\ IF WriterPanics(d)
       THEN out' = None /\ pc' = "write_panic"
       ELSE out' = Some(to_writer(d, g)) /\ pc' = "written"

Write ==
    /\ ParsedOk /\ pass = 1
    /\ \E g \in NonFiniteTexts : DoWrite(Unwrap(result).doc, g)
    /\ UNCHANGED <<src, bad, lines, pass, result, unit>>
    /\ UNCHANGED locals

Reparse ==
    /\ pc = "written" /\ pass = 1
    /\ src' = BufLines(Unwrap(out))
    /\ bad' = {}
    /\ lines' = LinesNew
    /\ pass' = 2
    /\ pc' = "comment"
    /\ result' = None
    /\ comment' = None /\ scale' = None /\ lattice_vectors' = None
    /\ group_symbols' = None /\ group_counts' = None /\ n' = 0
    /\ has_selective_dynamics' = FALSE /\ has_direct' = FALSE
    /\ positions' = None /\ dynamics' = None
    /\ line' = None /\ status' = "Required" /\ vel_direct' = FALSE
    /\ velocities' = None
    /\ UNCHANGED <<first, out, unit>>

----------------------------------------------------------------------------
(* Direct calls of the helpers, the way the unit test of words()           *)
(* (parse.rs:268-291) calls them: unit holds the call, its argument and    *)
(* what it returned.  The parse variables stay as they are meanwhile,      *)
(* except that a call of Lines::next works on src, bad and lines.          *)
Idle == [fn |-> "none"]

UnitFrame == UNCHANGED <<pc, pass, result, first, out>> /\ UNCHANGED locals

(* classify_coord_line(arg), and the has_direct the caller makes of it *)
(* (parse.rs:513-521), hence the tag of the positions.                 *)
CallClassify ==
    /\ pc = "unit" /\ unit.fn = "classify" /\ unit.ret = None
    /\ unit' = [unit EXCEPT !.ret = Some([cat |-> classify_coord_line(unit.arg),
                                          tag |-> CoordsOf(HasDirect(unit.arg), <<>>).tag])]
    /\ UNCHANGED <<src, bad, lines>> /\ UnitFrame

(* arg.parse::<Logical>() *)
CallLogical ==
    /\ pc = "unit" /\ unit.fn = "logical" /\ unit.ret = None
    /\ unit' = [unit EXCEPT !.ret = Some(ParseLogical(unit.arg))]
    /\ UNCHANGED <<src, bad, lines>> /\ UnitFrame

(* arg.words().collect(): the words, or the panic of words(). *)
CallWords ==
    /\ pc = "unit" /\ unit.fn = "words" /\ unit.ret = None
    /\ unit' = [unit EXCEPT !.ret = Some([panic |-> words_panics(unit.arg),
                                          ws |-> words(unit.arg)])]
    /\ UNCHANGED <<src, bad, lines>> /\ UnitFrame

(* let s = s.slice(a..b);  (parse.rs:282): off keeps where arg starts in *)
(* text, the string the first span was made of.                          *)
CallSlice ==
    /\ pc = "unit" /\ unit.fn = "words"
    /\ \E a \in 0..Len(unit.arg.s) : \E b \in a..Len(unit.arg.s) :
          unit' = [unit EXCEPT !.arg = slice(unit.arg, a, b),
                               !.off = unit.off + a, !.ret = None]
    /\ UNCHANGED <<src, bad, lines>> /\ UnitFrame

(* lines.next(): ended records that the underlying iterator has been asked *)
(* at its end and answered None; oks counts the lines returned.            *)
DoCallNext(x) ==
    /\ lines' = x.L
    /\ unit' = [unit EXCEPT !.ret = Some(x.r),
                            !.oks = IF x.r.ok THEN unit.oks + 1 ELSE unit.oks,
                            !.ended = unit.ended \/ lines.pos >= Len(src)]

CallNext ==
    /\ pc = "unit" /\ unit.fn = "next"
    /\ DoCallNext(LinesNext(lines))
    /\ UNCHANGED <<src, bad>> /\ UnitFrame

(* An iterator that is not fused yields again after its None (a file that *)
(* grew, a terminal): at most MaxLate more lines.                          *)
MaxLate == 1

SourceResumes ==
    /\ pc = "unit" /\ unit.fn = "next" /\ unit.ended
    /\ Len(src) < unit.arg + MaxLate
    /\ src' = Append(src, "late")
    /\ UNCHANGED <<bad, lines, unit>> /\ UnitFrame

----------------------------------------------------------------------------
(* The inputs: files assembled from catalogues of lines, one section varied *)
(* at a time around a well-formed file.                                     *)
MaxTail == 3       \* lines after the position block
MaxTokens == 2     \* tokens on a generated symbol line or counts line

SeqsUpTo(A, k) == UNION {[1..m -> A] : m \in 0..k}

RECURSIVE JoinSp(_)
JoinSp(ts) ==
    IF Len(ts) = 0 THEN ""
    ELSE IF Len(ts) = 1 THEN ts[1]
    ELSE ts[1] \o " " \o JoinSp(Tail(ts))

Lat0 == <<"1.0 0.0 0.0", "0.0 1.0 0.0", "0.0 0.0 1.0">>

Comments == {"x", "", "a\rb"}

ScaleLines ==
    {"1.0", "-27.0", "  2.5 a", "1.0 2.0", "0.0", "-0", "NaN", "", "x",
     "1.0 x 2.0", "\t-1e1\t .5", " 0.0 1.0", "inf"}

LatticeLines ==
    {"1.0 0.0 0.0", "1 0 0 c", "1.0 0.0", "1.0 a 0.0", "1e-7 -0.5 12.50", "  .5 2. +3e2",
     "NaN 0.0 -inf"}

SymTokens == {"Si", "1x"}
CountTokens == {"1", "2", "0", "+5"}

SymbolBlocks ==
    {<<JoinSp(ts)>> : ts \in SeqsUpTo(SymTokens, MaxTokens) \ {<<>>}}
    \cup {<<>>, <<"\f">>, <<"\f Si">>, <<"\f1">>, <<" \tO2  Si ">>}

CountLines ==
    {JoinSp(ts) : ts \in SeqsUpTo(CountTokens, MaxTokens)} \cup {" 1  x 2", "1 1 1x"}

FlagBlocks ==
    {<<"Direct">>, <<"Cartesian">>, <<"">>, <<" x">>, <<"kartesisch">>,
     <<"Selective dynamics", "Direct">>, <<"s", "C">>, <<"S">>, <<" S", "D">>}

PositionLines ==
    {"0.0 0.0 0.0", "0.5 0.25 -1.5 T F T", "1 2 3 .TRUE. .F. t rest", "0.0 0.0",
     "0.0 0.0 0.0 T X F", "0.0 0.0 0.0 T F", "0.0 y 0.0"}

TailLines == {"", " \t", "C", "0.5 -2.0 1e-7", " x", "\f"}

Tails == SeqsUpTo(TailLines, MaxTail)

Repeat(x, k) == [i \in 1..k |-> x]

Input(c, s, l1, blk, flags, pos, tail) ==
    <<c, s, l1, Lat0[2], Lat0[3]>> \o blk \o flags \o pos \o tail

Prefixes(xs) == {SubSeq(xs, 1, k) : k \in 0..Len(xs)}

Inputs ==
    {Input(c, s, Lat0[1], <<"Si", "1">>, <<"Direct">>, <<"0.0 0.0 0.0">>, <<>>) :
        c \in Comments, s \in ScaleLines}
    \cup {Input("x", "1.0", l, <<"Si", "1">>, <<"Cartesian">>, <<"0.5 0.5 0.5">>, <<>>) :
        l \in LatticeLines}
    \cup UNION {{Input("x", "1.0", Lat0[1], blk \o <<cl>>, <<"Direct">>,
                       Repeat("0.0 0.0 0.0", k), <<>>) :
                    blk \in SymbolBlocks, cl \in CountLines} : k \in {1, 2}}
    \cup {Input("x", "1.0", Lat0[1], <<"Si", "1">>, fb, <<pl>>, tl) :
        fb \in FlagBlocks, pl \in PositionLines,
        tl \in {<<>>, <<"", "0.5 0.5 0.5">>, <<"Cart", "1 1 1", " ">>}}
    \cup UNION {{Input("x", "1.0", Lat0[1], <<"Si", NatStr(k)>>, <<"Direct">>,
                       Repeat("0.0 0.0 0.0", k), tl) : tl \in Tails} : k \in {1, 2}}
    \cup Prefixes(Input("x", "1.0", Lat0[1], <<"Si O", "1 1">>, <<"Sel", "Direct">>,
                        Repeat("0.0 0.0 0.0 T T F", 2),
                        <<"", "0.1 0.0 0.0", "0.0 0.2 0.0 c">>))

(* The arguments of the direct calls. *)
ClassifyArgs ==
    {"", " ", " \t", "\f", " \f", "C", "cart", "K", "k x", "D", "d", "Direct",
     " C", "\tx", "x", "1.0", "\fx", "S", " d"}

LogicalArgs ==
    {"", ".", "..T", ".T", "T", ".TRUE.", "t", ".F", "F", "X", "f", ".f",
     "true", "Tx", "F.", ".x", "T.", "0", ". T"}

WordsArgs == {"", " ", "\t \r", "  aa b   ccc  ", "a", "a\tb", "\fa \r", " \f "}

LineSource == <<"l0", "l1", "l2">>

UnitCalls ==
    {[fn |-> "classify", arg |-> s, ret |-> None] : s \in ClassifyArgs}
    \cup {[fn |-> "logical", arg |-> s, ret |-> None] : s \in LogicalArgs}
    \cup {[fn |-> "words", text |-> s, arg |-> Spanned(0, 0, s), off |-> 0,
               ret |-> None] : s \in WordsArgs}

(* The locals of _from_reader before it has run, and no round trip yet. *)
Fresh ==
    /\ lines = LinesNew
    /\ pass = 1
    /\ result = None
    /\ comment = None /\ scale = None /\ lattice_vectors = None
    /\ group_symbols = None /\ group_counts = None /\ n = 0
    /\ has_selective_dynamics = FALSE /\ has_direct = FALSE
    /\ positions = None /\ dynamics = None
    /\ line = None /\ status = "Required" /\ vel_direct = FALSE
    /\ velocities = None
    /\ first = None /\ out = None

UnitInit ==
    /\ pc = "unit" /\ Fresh
    /\ \/ unit \in UnitCalls /\ src = <<>> /\ bad = {}
       \/ /\ src \in Prefixes(LineSource)
          /\ bad \in SUBSET (1..Len(src))
          /\ unit = [fn |-> "next", arg |-> Len(src), ret |-> None,
                     oks |-> 0, ended |-> FALSE]

ParseInit == unit = Idle /\ pc = "comment" /\ Fresh

Init ==
    \/ ParseInit /\ src \in Inputs /\ bad = {}
    \/ UnitInit

(* _from_reader and the round trip of tests/parse.rs *)
Parse ==
    \/ ReadComment \/ ReadScale \/ ReadLattice \/ ReadSymbolsCounts
    \/ ReadFlags \/ ReadPositions
    \/ VelFirst \/ VelSecond \/ VelDecide
    \/ Trailer \/ Assemble
    \/ Write \/ Reparse

Next ==
    \/ Parse
    \/ CallClassify \/ CallLogical \/ CallWords \/ CallSlice
    \/ CallNext \/ SourceResumes

Spec == Init /\ [][Next]_vars

(* _from_reader on a source that reports I/O failures: at most MaxBad of *)
(* the items f.lines() yields are an Err.                                *)
MaxBad == 1

IoTails ==
    {<<>>, <<"">>, <<"", "">>, <<"", "", " ">>, <<"", "", "C">>, <<"", "x">>,
     <<"C", "1 1 1">>, <<"C", "1 1 1", "", "x">>, <<"", "0.5 0.5 0.5", "">>}

IoInputs ==
    {Input("x", "1.0", Lat0[1], <<"Si", "1">>, <<"Direct">>, <<"0.0 0.0 0.0">>, tl) :
        tl \in IoTails}
    \cup {Input("x", "1.0", Lat0[1], <<"2">>, <<"S", "C">>,
                Repeat("0.0 0.0 0.0 T T F", 2), <<"", "0.1 0.0 0.0", "0.0 0.2 0.0">>)}

InitIo ==
    /\ ParseInit
    /\ src \in IoInputs
    /\ bad \in {b \in SUBSET (1..Len(src)) : Cardinality(b) <= MaxBad}

SpecIo == InitIo /\ [][Parse]_vars

----------------------------------------------------------------------------
(* Vocabulary of the properties. *)

(* Equality of two reals as f64's == has it: NaN equals nothing, -0.0 *)
(* equals 0.0.                                                        *)
FloatEq(x, y) ==
    /\ x.cls # "nan" /\ y.cls # "nan"
    /\ x.cls = y.cls /\ x.m = y.m /\ x.e = y.e
    /\ (x.neg = y.neg \/ (x.cls = "num" /\ x.m = 0))

(* Structural equality of two Documents, field by field. *)
VecEq(a, b) == /\ Len(a) = Len(b)
               /\ \A i \in 1..Len(a) : \A j \in 1..3 : FloatEq(a[i][j], b[i][j])

CoordsEq(a, b) == a.tag = b.tag /\ VecEq(a.v, b.v)

DocEq(a, b) ==
    /\ a.comment = b.comment
    /\ a.scale.kind = b.scale.kind /\ FloatEq(a.scale.v, b.scale.v)
    /\ VecEq(a.lattice_vectors, b.lattice_vectors)
    /\ a.group_symbols = b.group_symbols
    /\ a.group_counts = b.group_counts
    /\ CoordsEq(a.positions, b.positions)
    /\ a.dynamics = b.dynamics
    /\ IsSome(a.velocities) = IsSome(b.velocities)
    /\ IsSome(a.velocities) => CoordsEq(Unwrap(a.velocities), Unwrap(b.velocities))

TheError == Unwrap(result).e

FailsWith(msg, ln, col) ==
    /\ Failed
    /\ TheError.kind = "Generic" /\ TheError.msg = msg
    /\ TheError.line = ln /\ TheError.col = col

(* The line at 0-based index k, and its tokens. *)
LineAt(k) == Spanned(k, 0, src[k + 1])
TokensAt(k) == words(LineAt(k))

(* A line str::trim leaves nothing of. *)
BlankLine(s) == \A i \in 0..(Len(s) - 1) : IsWhite(At(s, i))

(* A line with a token, and the column of its first token. *)
HasToken(s) == \E i \in 0..(Len(s) - 1) : ~is_ascii_whitespace(At(s, i))
FirstTokenCol(s) ==
    CHOOSE i \in 0..(Len(s) - 1) :
        /\ ~is_ascii_whitespace(At(s, i))
        /\ \A j \in 0..(i - 1) : is_ascii_whitespace(At(s, j))

(* The first line from the a-th on (1-based) that has a token. *)
HasTokenFrom(a) == \E k \in a..Len(src) : HasToken(src[k])
FirstTokenLine(a) ==
    CHOOSE k \in a..Len(src) :
        HasToken(src[k]) /\ \A j \in a..(k - 1) : ~HasToken(src[j])

(* The n position lines have been read; they end with line PosEnd, After(k) *)
(* is the k-th line behind them.                                            *)
PositionsRead == positions # None
PosEnd ==
    5 + (IF IsSome(group_symbols) THEN 2 ELSE 1)
      + (IF has_selective_dynamics THEN 2 ELSE 1) + n
HasAfter(k) == Len(src) >= PosEnd + k
After(k) == src[PosEnd + k]

(* The three reals the k-th line of the source (1-based) starts with. *)
RowAt(k) == Arr3F64(TokensAt(k - 1), 0, LineAt(k - 1), "expected 3 coordinates")

----------------------------------------------------------------------------
(* C1: round trip.  For every Document D that parse returns, the writer    *)
(* emits a text for D, and parsing that text succeeds and yields a Document *)
(* structurally equal to D.                                                 *)
C1_RoundTrip ==
    /\ pc # "write_panic"
    /\ (pass = 2 /\ Returned) =>
            (ParsedOk /\ DocEq(Unwrap(first), Unwrap(result).doc))

(* C2: every Document that parse returns has n = sum(counts) >= 1, exactly  *)
(* n positions, n flag triples when dynamics is present, n velocities when  *)
(* velocities are present, and as many species as counts when species are   *)
(* given.  It is stated of the fields as they stand when the Document is    *)
(* assembled, before validate looks at them, and of the Document returned.  *)
C2_DocumentInvariants ==
    (pc = "assemble" \/ ParsedOk) =>
        /\ n = Sum(group_counts) /\ n >= 1
        /\ Len(positions.v) = n
        /\ IsSome(dynamics) => Len(Unwrap(dynamics)) = n
        /\ IsSome(velocities) => Len(Unwrap(velocities).v) = n
        /\ IsSome(group_symbols) => Len(Unwrap(group_symbols)) = Len(group_counts)
        /\ ParsedOk => Unwrap(result).doc = RawPoscar

C2_Witness ==
    /\ ParsedOk /\ pass = 1
    /\ IsSome(group_symbols) /\ IsSome(dynamics) /\ IsSome(velocities) /\ n = 2

(* C3: if the input ends exactly after the n position lines, or has exactly *)
(* one further line, empty or whitespace-only, parse succeeds and the       *)
(* Document has no velocities.                                              *)
C3_NoVelocitiesAtEnd ==
    (/\ Returned /\ PositionsRead
     /\ \/ Len(src) = PosEnd
        \/ Len(src) = PosEnd + 1 /\ BlankLine(After(1)))
    => (ParsedOk /\ Unwrap(result).doc.velocities = None)

C3_Witness ==
    /\ ParsedOk /\ pass = 1
    /\ Len(src) = PosEnd + 1 /\ BlankLine(After(1))
    /\ Unwrap(result).doc.velocities = None

(* C4 as claimed: when the n position lines are followed by one blank line, *)
(* a further non-blank line after it makes parse fail with "expected end of *)
(* file".                                                                   *)
C4_NonBlankAfterOneBlankFails ==
    (/\ Returned /\ PositionsRead /\ HasAfter(2)
     /\ BlankLine(After(1)) /\ ~BlankLine(After(2)))
    => (Failed /\ TheError.msg = "expected end of file")

(* C4, amended: when the n position lines are followed by a blank line, a    *)
(* non-blank line right after it is read as the first velocity line: parse  *)
(* fails there only with what that line lacks as a velocity line, and a     *)
(* Document returned has velocities.  It is after a second blank line that  *)
(* the first later token fails with "expected end of file", at its line and *)
(* column.                                                                  *)
C4_VelocitiesAfterOneBlank ==
    (Returned /\ PositionsRead /\ HasAfter(2) /\ BlankLine(After(1))) =>
        IF ~BlankLine(After(2))
        THEN IF ~RowAt(PosEnd + 2).ok
             THEN Failed /\ TheError = RowAt(PosEnd + 2).e
             ELSE /\ ~Panicked
                  /\ ParsedOk => IsSome(Unwrap(result).doc.velocities)
                  /\ Failed => TheError.line # Some(PosEnd + 1)
        ELSE IF HasTokenFrom(PosEnd + 3)
             THEN FailsWith("expected end of file",
                            Some(FirstTokenLine(PosEnd + 3) - 1),
                            Some(FirstTokenCol(src[FirstTokenLine(PosEnd + 3)])))
             ELSE ParsedOk /\ Unwrap(result).doc.velocities = None

C4_Witness ==
    /\ ParsedOk /\ pass = 1 /\ HasAfter(2)
    /\ BlankLine(After(1)) /\ ~BlankLine(After(2))
    /\ IsSome(Unwrap(result).doc.velocities)

(* C5: if the first line after the positions is non-blank, or it is blank   *)
(* and the next line exists and is non-blank, then a Document returned has  *)
(* velocities: exactly n triples, read from the n lines that start with the *)
(* second line after the positions, tagged Cartesian iff the first byte of  *)
(* the first line is one of c, C, k, K and Direct otherwise.                *)
C5_VelocityPresence ==
    (/\ ParsedOk /\ HasAfter(1)
     /\ \/ ~BlankLine(After(1))
        \/ HasAfter(2) /\ ~BlankLine(After(2)))
    => /\ IsSome(Unwrap(result).doc.velocities)
       /\ Len(Unwrap(Unwrap(result).doc.velocities).v) = n
       /\ HasAfter(n + 1)
       /\ \A i \in 1..n :
            RowAt(PosEnd + 1 + i) = Ok(Unwrap(Unwrap(result).doc.velocities).v[i])
       /\ Unwrap(Unwrap(result).doc.velocities).tag =
            (IF Len(After(1)) > 0 /\ At(After(1), 0) \in {"c", "C", "k", "K"}
             THEN "Cart" ELSE "Frac")

C5_Witness ==
    /\ ParsedOk /\ pass = 1 /\ n = 2 /\ HasAfter(3)
    /\ After(1) = "C"
    /\ Unwrap(Unwrap(result).doc.velocities).tag = "Cart"

(* C6: if the line after the positions is non-blank and the input ends      *)
(* right after it, or the velocity block has begun and the input ends       *)
(* before its n-th line, parse fails with "unexpected end of file" tagged   *)
(* with the number of lines the input has and no column.                    *)
C6_UnexpectedEof ==
    (/\ Returned /\ PositionsRead
     /\ \/ Len(src) = PosEnd + 1 /\ ~BlankLine(After(1))
        \/ /\ HasAfter(2)
           /\ ~BlankLine(After(1)) \/ ~BlankLine(After(2))
           /\ Len(src) < PosEnd + 1 + n
           /\ \A k \in (PosEnd + 2)..Len(src) : RowAt(k).ok)
    => FailsWith("unexpected end of file", Some(Len(src)), None)

C6_Witness ==
    /\ Failed /\ pass = 1 /\ PositionsRead
    /\ n = 2 /\ Len(src) = PosEnd + 2 /\ RowAt(PosEnd + 2).ok
    /\ TheError.msg = "unexpected end of file" /\ TheError.line = Some(Len(src))

(* C7: once the velocity block is resolved (its n-th line has been read, or *)
(* two blank lines after the positions showed there is none), every         *)
(* remaining line must be empty or whitespace-only: the first token on them *)
(* makes parse fail with "expected end of file" at its line and column, and *)
(* without one parse succeeds, having read the source to its end.           *)
Resolved ==
    /\ PositionsRead
    /\ \/ IsSome(velocities)
       \/ HasAfter(2) /\ BlankLine(After(1)) /\ BlankLine(After(2))

ResolvedAt == IF IsSome(velocities) THEN PosEnd + 1 + n ELSE PosEnd + 2

(* C7: behind the resolved velocity block only blank lines may follow; the *)
(* first token there fails with "expected end of file" at its position.    *)
C7_Trailer ==
    (Returned /\ Resolved) =>
        IF HasTokenFrom(ResolvedAt + 1)
        THEN FailsWith("expected end of file",
                       Some(FirstTokenLine(ResolvedAt + 1) - 1),
                       Some(FirstTokenCol(src[FirstTokenLine(ResolvedAt + 1)])))
        ELSE ParsedOk /\ lines.pos = Len(src) /\ lines.fused

C7_Witness ==
    /\ Failed /\ pass = 1 /\ IsSome(velocities)
    /\ TheError.msg = "expected end of file"
    /\ TheError.line = Some(PosEnd + 1 + n) /\ TheError.col = Some(1)

(* C8: the first token of the scale line is parsed as a real number: a      *)
(* negative value v gives the volume |v| ("-27.0" gives 27.0), a positive   *)
(* one the factor v, zero or NaN fails at that token's line and column;     *)
(* then a second token that also parses as a real number fails with "too    *)
(* many floats on scale line" at the second token's position ("1.0 2.0"     *)
(* fails), and any other second token is comment.                           *)
ScaleFailed == Failed /\ lines.pos = 2 /\ TheError.line = Some(1)
ScaleTokens == TokensAt(1)
ScaleValue == ParseF64(ScaleTokens[1].s)

(* C8: the scale line gives the volume, the factor, or an error at its     *)
(* first token; a second token that is a real number fails at its place.   *)
C8_ScaleLine ==
    /\ (lines.pos >= 2 /\ (pc = "lattice" \/ ScaleFailed)) =>
          IF Len(ScaleTokens) = 0
          THEN FailsWith("expected scale", Some(1), None)
          ELSE IF ~ScaleValue.ok
          THEN /\ Failed /\ TheError.kind = "ParseFloat"
               /\ TheError.line = Some(1) /\ TheError.col = Some(ScaleTokens[1].col)
          ELSE IF ScaleValue.v.cls = "nan" \/ (ScaleValue.v.cls = "num" /\ ScaleValue.v.m = 0)
          THEN /\ Failed /\ TheError.kind = "Generic"
               /\ TheError.line = Some(1) /\ TheError.col = Some(ScaleTokens[1].col)
          ELSE IF Len(ScaleTokens) >= 2 /\ ParseF64(ScaleTokens[2].s).ok
          THEN FailsWith("too many floats on scale line (expected just one)",
                         Some(1), Some(ScaleTokens[2].col))
          ELSE /\ pc = "lattice"
               /\ scale = [kind |-> IF ScaleValue.v.neg THEN "Volume" ELSE "Factor",
                           v |-> [ScaleValue.v EXCEPT !.neg = FALSE]]
    /\ (pc = "lattice" /\ src[2] = "-27.0") =>
          scale = [kind |-> "Volume", v |-> Num(FALSE, 27, 0)]
    /\ (pc \notin {"comment", "scale"} /\ Len(src) >= 2 /\ src[2] = "1.0 2.0") => ScaleFailed

C8_Witness ==
    /\ pc = "lattice" /\ pass = 1
    /\ src[2] = "-27.0" /\ scale.kind = "Volume" /\ scale.v = Num(FALSE, 27, 0)

(* The line behind the three lattice lines has been dealt with: the step    *)
(* went on to the flag lines, or parse returned from it without a Document. *)
SymbolsStepDone ==
    /\ Len(src) >= 6 /\ lattice_vectors # None
    /\ pc = "flags" \/ (Returned /\ ~ParsedOk /\ group_counts = None)

HasNonWhite(s) == TrimStartIdx(s, 0) < Len(s)
FirstNonWhiteIsDigit(s) == HasNonWhite(s) /\ At(s, TrimStartIdx(s, 0)) \in Digits

ValidSymbol(s) ==
    /\ Len(s) > 0
    /\ \A i \in 0..(Len(s) - 1) : ~is_ascii_whitespace(At(s, i))
    /\ At(s, 0) \notin Digits

AllValid(toks) == \A k \in 1..Len(toks) : ValidSymbol(toks[k].s)
FirstInvalid(toks) ==
    CHOOSE k \in 1..Len(toks) :
        ~ValidSymbol(toks[k].s) /\ \A j \in 1..(k - 1) : ValidSymbol(toks[j].s)

(* C9: the line after the three lattice lines is the counts line, with no   *)
(* species, iff its first non-whitespace byte is a digit; otherwise it is   *)
(* the species line: a token on it that is no valid species symbol makes    *)
(* parse fail with "invalid symbol" at that token's position, else the      *)
(* species are its tokens in order and the next line is the counts line     *)
(* (what parse then reports of a species line with tokens, it reports of    *)
(* the line behind it; a line without a token gives no Document either way). *)
C9_SpeciesLineDetection ==
    SymbolsStepDone =>
        IF FirstNonWhiteIsDigit(src[6])
        THEN /\ pc = "flags" => (group_symbols = None /\ lines.pos = 6)
             /\ Returned => (Failed /\ TheError.line = Some(5))
        ELSE IF ~AllValid(TokensAt(5))
        THEN FailsWith("invalid symbol", Some(5),
                       Some(TokensAt(5)[FirstInvalid(TokensAt(5))].col))
        ELSE /\ pc = "flags" =>
                    /\ group_symbols =
                         Some([k \in 1..Len(TokensAt(5)) |-> TokensAt(5)[k].s])
                    /\ lines.pos = 7
             /\ Returned => (Failed /\ (HasToken(src[6]) => TheError.line = Some(6)))

(* The counts line has been reached and dealt with; CountsIdx is its *)
(* 0-based index.                                                    *)
CountsIdx == IF FirstNonWhiteIsDigit(src[6]) THEN 5 ELSE 6

CountsLineDone ==
    /\ SymbolsStepDone /\ HasNonWhite(src[6])
    /\ \/ FirstNonWhiteIsDigit(src[6])
       \/ AllValid(TokensAt(5)) /\ Len(src) >= 7

(* A strict non-negative integer: decimal digits only. *)
StrictNat(s) == Len(s) > 0 /\ \A i \in 0..(Len(s) - 1) : At(s, i) \in Digits

RECURSIVE NatPrefix(_, _)
NatPrefix(toks, k) ==
    IF k > Len(toks) \/ ~StrictNat(toks[k].s) THEN <<>>
    ELSE <<NumVal(toks[k].s, 0, Len(toks[k].s))>> \o NatPrefix(toks, k + 1)

ClaimedCounts == NatPrefix(TokensAt(CountsIdx), 1)

(* C10: the counts are the longest prefix of the tokens of the counts line  *)
(* that each are a strict non-negative integer ("+5" is none), the tokens   *)
(* behind it are comment; with species given, a number of species other     *)
(* than the number of counts fails with "Inconsistent number of counts",    *)
(* and n = sum(counts) = 0 fails with "There must be at least one atom.";   *)
(* else the counts and n are stored ("Si Si" with "1 1" gives [1, 1] and 2). *)
C10_CountsLine ==
    CountsLineDone =>
        IF CountsIdx = 6 /\ Len(TokensAt(5)) # Len(ClaimedCounts)
        THEN FailsWith("Inconsistent number of counts", Some(CountsIdx), Some(0))
        ELSE IF Sum(ClaimedCounts) = 0
        THEN FailsWith("There must be at least one atom.", Some(CountsIdx), Some(0))
        ELSE /\ pc = "flags"
             /\ group_counts = ClaimedCounts
             /\ n = Sum(ClaimedCounts)

C10_Witness ==
    /\ pc = "flags" /\ pass = 1
    /\ src[6] = "Si Si" /\ src[7] = "1 1"
    /\ group_counts = <<1, 1>> /\ n = 2

(* The counts line has been stored; CountsEnd is the number of lines read  *)
(* up to it, FlagLine the line that follows.                                *)
CountsStored == unit = Idle /\ group_counts # None
CountsEnd == 5 + (IF IsSome(group_symbols) THEN 2 ELSE 1)
FlagLine == src[CountsEnd + 1]
SelectiveByFirstChar == Len(FlagLine) > 0 /\ At(FlagLine, 0) \in {"s", "S"}

(* The coordinate-system line the claim names (1-based), and whether the *)
(* flag lines up to it exist.                                             *)
CoordLineIdx == CountsEnd + (IF SelectiveByFirstChar THEN 2 ELSE 1)
FlagLinesRead ==
    /\ CountsStored /\ pc # "flags"
    /\ Len(src) >= CountsEnd + 1 /\ Len(src) >= CoordLineIdx

(* A boolean literal as the format has it: at most one leading dot, then *)
(* t/T or f/F.                                                            *)
AfterDot(s) == IF Len(s) > 0 /\ At(s, 0) = "." THEN Slice(s, 1, Len(s)) ELSE s
IsTrueLiteral(s) == Len(AfterDot(s)) > 0 /\ At(AfterDot(s), 0) \in {"t", "T"}
IsFalseLiteral(s) == Len(AfterDot(s)) > 0 /\ At(AfterDot(s), 0) \in {"f", "F"}
IsBoolLiteral(s) == IsTrueLiteral(s) \/ IsFalseLiteral(s)

(* The i-th position line (1-based in the source) and what it supplies. *)
PosLineIdx(i) == CoordLineIdx + i
HasFlagsAt(k) ==
    /\ Len(TokensAt(k - 1)) >= 6
    /\ \A j \in 4..6 : IsBoolLiteral(TokensAt(k - 1)[j].s)
FlagsAt(k) == [j \in 1..3 |-> IsTrueLiteral(TokensAt(k - 1)[j + 3].s)]
GoodPosLine(k) ==
    /\ k <= Len(src) /\ RowAt(k).ok
    /\ SelectiveByFirstChar => HasFlagsAt(k)

(* C11: selective dynamics is on iff the first character, untrimmed, of the *)
(* line after the counts line is s or S.  Then the line after it is the     *)
(* coordinate-system line, every one of the n position lines must supply    *)
(* three boolean literals right after its three coordinates, and dynamics   *)
(* is present; else that line is itself the coordinate-system line, no      *)
(* further line is consumed, and dynamics is absent.                        *)
C11_SelectiveDynamics ==
    FlagLinesRead =>
        /\ has_selective_dynamics = SelectiveByFirstChar
        /\ pc = "positions" =>
              /\ lines.pos = CoordLineIdx
              /\ has_direct = ~(Len(src[CoordLineIdx]) > 0
                                /\ At(src[CoordLineIdx], 0) \in {"c", "C", "k", "K"})
        /\ PositionsRead =>
              /\ IsSome(dynamics) = SelectiveByFirstChar
              /\ \A i \in 1..n :
                    /\ GoodPosLine(PosLineIdx(i))
                    /\ positions.v[i] = RowAt(PosLineIdx(i)).v
                    /\ SelectiveByFirstChar =>
                          Unwrap(dynamics)[i] = FlagsAt(PosLineIdx(i))
        /\ (Returned /\ ~PositionsRead) =>
              /\ Failed
              /\ \E i \in 1..n :
                    /\ ~GoodPosLine(PosLineIdx(i))
                    /\ \A j \in 1..(i - 1) : GoodPosLine(PosLineIdx(j))
                    /\ TheError.line =
                          Some(IF PosLineIdx(i) <= Len(src) THEN PosLineIdx(i) - 1
                               ELSE Len(src))

C11_Witness ==
    /\ ParsedOk /\ pass = 1 /\ FlagLinesRead
    /\ FlagLine = "s" /\ src[CoordLineIdx] = "C"
    /\ positions.tag = "Cart"
    /\ dynamics = Some(<<<<TRUE, FALSE, TRUE>>>>)

(* The five categories as the claim draws them: whitespace at the end of  *)
(* the line is what str::trim_end removes, a whitespace first byte is one *)
(* of space, tab, CR, LF.                                                 *)
Categories ==
    {"Cartesian", "Direct", "EmptyOrWhitespace", "IndentedText", "SuspiciouslyDirect"}

CategoryOf(s) ==
    IF BlankLine(s) THEN "EmptyOrWhitespace"
    ELSE IF At(s, 0) \in {"c", "C", "k", "K"} THEN "Cartesian"
    ELSE IF At(s, 0) \in {"d", "D"} THEN "Direct"
    ELSE IF At(s, 0) \in {" ", "\t", "\r", "\n"} THEN "IndentedText"
    ELSE "SuspiciouslyDirect"

TagOf(cat) == IF cat = "Cartesian" THEN "Cart" ELSE "Frac"

(* C12: the classifier answers for every line with exactly one of five     *)
(* categories: EmptyOrWhitespace iff nothing is left of the line after     *)
(* trimming its end, else Cartesian, Direct, IndentedText or               *)
(* SuspiciouslyDirect by its first byte; the positions are Cartesian iff   *)
(* the coordinate-system line is classified Cartesian and Direct in the    *)
(* four other cases, and parse never fails at the coordinate-system line.  *)
C12_Classifier ==
    /\ (unit.fn = "classify" /\ unit.ret # None) =>
          /\ Unwrap(unit.ret).cat \in Categories
          /\ Unwrap(unit.ret).cat = CategoryOf(unit.arg)
          /\ Unwrap(unit.ret).tag = TagOf(CategoryOf(unit.arg))
    /\ FlagLinesRead =>
          /\ pc = "positions" \/ PositionsRead \/ Failed
          /\ Failed => TheError.line # Some(CoordLineIdx - 1)
          /\ PositionsRead => positions.tag = TagOf(CategoryOf(src[CoordLineIdx]))

C12_Witness ==
    /\ unit.fn = "classify" /\ unit.arg = "\tx"
    /\ unit.ret = Some([cat |-> "IndentedText", tag |-> "Frac"])

(* The token of the source that a located error points at. *)
ErrorToken ==
    CHOOSE w \in {TokensAt(Unwrap(TheError.line))[k] :
                     k \in 1..Len(TokensAt(Unwrap(TheError.line)))} :
        w.col = Unwrap(TheError.col)

(* C13: a boolean literal is, after at most one leading dot, t or T for    *)
(* true and f or F for false, whatever follows that letter; anything else  *)
(* fails: the empty token, a lone dot, a second dot, another letter.  So   *)
(* ".T", "T", ".TRUE." and "t" are true, ".F" and "F" false, "X" fails.    *)
C13_BooleanLiteral ==
    /\ (unit.fn = "logical" /\ unit.ret # None) =>
          /\ Unwrap(unit.ret) =
                (IF IsTrueLiteral(unit.arg) THEN Ok(TRUE)
                 ELSE IF IsFalseLiteral(unit.arg) THEN Ok(FALSE)
                 ELSE Err("ParseLogical"))
          /\ unit.arg \in {".T", "T", ".TRUE.", "t"} => Unwrap(unit.ret) = Ok(TRUE)
          /\ unit.arg \in {".F", "F"} => Unwrap(unit.ret) = Ok(FALSE)
          /\ unit.arg \in {"X", "", ".", "..T"} => ~Unwrap(unit.ret).ok
    /\ (unit = Idle /\ Failed /\ TheError.kind = "ParseLogical") =>
          /\ IsSome(TheError.line) /\ IsSome(TheError.col)
          /\ ~IsBoolLiteral(ErrorToken.s)

C13_Witness ==
    /\ unit.fn = "logical" /\ unit.arg = ".TRUE." /\ unit.ret = Some(Ok(TRUE))

(* A read of the source that reported an I/O failure has been performed. *)
IoFailureSeen == \E k \in bad : k <= lines.pos

(* C14: an I/O failure that the source reports on any read of parse, the   *)
(* look-ahead reads of the velocity step and the reads of the trailing     *)
(* scan included, is what parse returns: never a Document, never another   *)
(* error.                                                                  *)
C14_IoFailurePropagated ==
    (Returned /\ pass = 1 /\ IoFailureSeen) =>
        Unwrap(result) = [kind |-> "Err", e |-> IoError]

(* C15: writing never fails on format grounds.  For every Document that    *)
(* parse returns the assertions of to_writer hold, so that it writes the   *)
(* text and returns Ok: the comment holds neither "\n" nor "\r" (also when *)
(* the first input line has a carriage return inside), counts is not       *)
(* empty, and dynamics, when present, has an entry for every position.     *)
C15_WriterNeverPanics ==
    /\ ParsedOk =>
          /\ ~Contains(Unwrap(result).doc.comment, "\n")
          /\ ~Contains(Unwrap(result).doc.comment, "\r")
          /\ Len(Unwrap(result).doc.group_counts) > 0
          /\ IsSome(Unwrap(result).doc.dynamics) =>
                Len(Unwrap(Unwrap(result).doc.dynamics)) =
                    Len(Unwrap(result).doc.positions.v)
    /\ pc # "write_panic"

(* C16: parse is total.  Whatever bytes the input lines hold, parse returns *)
(* a Document or one Error; no internal fault is reached: not the index of  *)
(* the first trimmed byte of the species/counts line, not the subtraction   *)
(* n - 1 before the velocity lines, not the re-check of the invariants at   *)
(* assembly.                                                                *)
C16_ParseTotal == Returned => Unwrap(result).kind \in {"Ok", "Err"}

(* The lines of the source: the items it yields that are no I/O failure. *)
RECURSIVE SourceLinesFrom(_)
SourceLinesFrom(k) ==
    IF k > Len(src) THEN <<>>
    ELSE (IF k \in bad THEN <<>> ELSE <<src[k]>>) \o SourceLinesFrom(k + 1)

SourceLines == SourceLinesFrom(1)

NextCalled == unit.fn = "next" /\ unit.ret # None
NextReturned == Unwrap(unit.ret)

(* C17: the (k+1)-th successful call of Lines::next returns the k-th line  *)
(* of the source (counted from 0) tagged line k, column 0; once the source *)
(* has reported its end, every call fails with "unexpected end of file"    *)
(* tagged with the number of lines returned so far and no column, the line *)
(* counter stays, and no line is returned again even when the source would *)
(* yield one.                                                              *)
C17_LineCursor ==
    NextCalled =>
        /\ lines.cur = unit.oks
        /\ NextReturned.ok =>
              /\ ~unit.ended
              /\ unit.oks <= Len(SourceLines)
              /\ NextReturned.v = Spanned(unit.oks - 1, 0, SourceLines[unit.oks])
        /\ unit.ended =>
              /\ ~NextReturned.ok
              /\ NextReturned.e =
                    ParseError("Generic", "unexpected end of file", Some(unit.oks), None)

C17_Witness ==
    /\ NextCalled /\ unit.ended /\ unit.oks = 2
    /\ lines.pos < Len(src)
    /\ NextReturned.e.line = Some(2)

(* The maximal runs of non-whitespace bytes of s, as ranges a..b. *)
NonWhiteRun(s, a, b) ==
    /\ a < b
    /\ \A i \in a..(b - 1) : At(s, i) \notin {" ", "\t", "\r", "\n"}
    /\ a = 0 \/ At(s, a - 1) \in {" ", "\t", "\r", "\n"}
    /\ b = Len(s) \/ At(s, b) \in {" ", "\t", "\r", "\n"}

Runs(s) == {r \in (0..Len(s)) \X (0..Len(s)) : NonWhiteRun(s, r[1], r[2])}

WordsCalled == unit.fn = "words" /\ unit.ret # None
WordsReturned == Unwrap(unit.ret).ws

(* The range of the argument's text that a word claims by its column. *)
RangeOf(w) == <<w.col - unit.arg.col, w.col - unit.arg.col + Len(w.s)>>

(* C18: words() yields exactly the maximal runs of non-whitespace bytes    *)
(* (whitespace: space, tab, CR, LF) of the span's text, from left to       *)
(* right, each with the span's line and with the span's column plus the    *)
(* offset of the run as its column, also for a span that slice produced,   *)
(* whose column is offset by the start of the slice; nothing for an empty  *)
(* or all-whitespace text; and its panic is never reached.                 *)
C18_Tokenization ==
    /\ (unit.fn = "words") =>
          /\ unit.arg.col = unit.off
          /\ unit.arg.s = Slice(unit.text, unit.off, unit.off + Len(unit.arg.s))
    /\ WordsCalled =>
          /\ ~Unwrap(unit.ret).panic
          /\ Len(WordsReturned) = Cardinality(Runs(unit.arg.s))
          /\ \A k \in 1..Len(WordsReturned) :
                /\ RangeOf(WordsReturned[k]) \in Runs(unit.arg.s)
                /\ WordsReturned[k].s =
                      Slice(unit.arg.s, RangeOf(WordsReturned[k])[1],
                            RangeOf(WordsReturned[k])[2])
                /\ WordsReturned[k].s =
                      Slice(unit.text, WordsReturned[k].col,
                            WordsReturned[k].col + Len(WordsReturned[k].s))
                /\ WordsReturned[k].line = unit.arg.line
                /\ k > 1 => WordsReturned[k - 1].col < WordsReturned[k].col

C18_Witness ==
    /\ WordsCalled /\ unit.text = "  aa b   ccc  "
    /\ unit.arg = Spanned(0, 3, "a b   cc")
    /\ WordsReturned = <<Spanned(0, 3, "a"), Spanned(0, 5, "b"), Spanned(0, 9, "cc")>>

====
